---------------------------- MODULE Spec2Model ----------------------------
(***************************************************************************)
(* A model of the user-account backend: the user controller                *)
(* (src/unnamed/part_001), the media uploader (src/unnamed/part_002) and   *)
(* the user router (src/unnamed/part_003).                                 *)
(*                                                                         *)
(* The document store is the sequence `users` (a user's _id is its index)  *)
(* and the sequence `subs` of subscription edges.  `disk` is the set of    *)
(* temporary files multer has staged and nobody has unlinked yet.          *)
(* `reqs` holds the refreshAccessToken requests in flight, one record per  *)
(* request slot, with the position of each between its awaits.  `last` is  *)
(* the request and the response of the most recent handler that runs as    *)
(* one step.  `minted`, `spent` and `issued` record which tokens were      *)
(* signed, which were consumed by a successful refresh and what the last   *)
(* token-issuing response handed to each user's client.                    *)
(***************************************************************************)
EXTENDS Naturals, Sequences, FiniteSets, TLC

VARIABLES users, subs, disk, reqs, minted, spent, issued, last

vars == <<users, subs, disk, reqs, minted, spent, issued, last>>

-----------------------------------------------------------------------------
(* Bounds *)

\* most token pairs signed in one behaviour
MaxTokens == 3
\* most subscription edges the store holds
MaxSubs == 2
\* most video references in one user's watchHistory
MaxHistory == 2

-----------------------------------------------------------------------------
(* Values *)

\* request body strings; " " is the blank one
Usernames == {"alice", "Alice", "bob", " "}
Emails == {"a@x.io", "b@x.io"}
FullNames == {"Al"}
Passwords == {"pw"}

\* temporary files multer stages: the avatar and the cover image of a
\* registration, the file of an avatar update and of a cover update
AvatarPaths == {"tmp/av1.png"}
CoverPaths == {"tmp/cv1.png"}
NewAvatarPaths == {"tmp/av2.png"}
NewCoverPaths == {"tmp/cv1.png"}
NoPath == ""

\* the outcomes of the remote upload call for a path; none is made
\* without a path
UploadOutcomes(path) == IF path = "" THEN {"none"} ELSE {"ok", "fail"}

NoUser == 0

\* String.prototype.trim on the strings of the model
Trim(s) == IF s = " " THEN "" ELSE s

\* String.prototype.toLowerCase on the strings of the model
ToLowerCase(s) == IF s = "Alice" THEN "alice" ELSE s

\* a token: a signed JWT of kind "access" or "refresh" carrying _id = uid
\* (n tells the signed pairs apart), the value undefined, or a string that
\* is no JWT
Token(k, u, n) == [kind |-> k, uid |-> u, n |-> n]
Undefined == Token("undefined", NoUser, 0)
NotAJwt == Token("string", NoUser, 0)

-----------------------------------------------------------------------------
(* utils/cloudinary.js *)

\* the url of the remote descriptor cloudinary answers with
Url(path) == "cdn/" \o path

Null == [ok |-> FALSE, url |-> ""]

\* fs.unlinkSync: removes the file, throws when there is none
UnlinkSync(d, path) == [ok |-> path \in d, disk |-> d \ {path}]

\* a catch block that forgets the unlink
UploadCatchNoUnlink(path, d, calls) ==
    [response |-> Null, disk |-> d, unlinks |-> calls, threw |-> FALSE]

\* the catch block of uploadOnCloudinary: unlink, then return null
UploadCatch(path, d, calls) ==
    LET u == UnlinkSync(d, path)
    IN  [response |-> Null, disk |-> u.disk, unlinks |-> calls + 1,
         threw |-> ~u.ok]

\* uploadOnCloudinary(localFilePath) on disk d, the remote call ending in
\* `outcome`; the remote call cannot succeed on a file that is not there.
\* Answers the value returned, the disk left, the number of unlinkSync
\* calls made and whether an exception escaped.
UploadOnCloudinary(path, d, outcome) ==
    IF path = NoPath
    THEN [response |-> Null, disk |-> d, unlinks |-> 0, threw |-> FALSE]
    ELSE IF outcome = "ok" /\ path \in d
         THEN LET u == UnlinkSync(d, path)
              IN  IF u.ok
                  THEN [response |-> [ok |-> TRUE, url |-> Url(path)],
                        disk |-> u.disk, unlinks |-> 1, threw |-> FALSE]
                  ELSE UploadCatch(path, u.disk, 1)
         ELSE UploadCatch(path, d, 0)

-----------------------------------------------------------------------------
(* The store: models/user.model.js through the calls the controller makes *)

\* the document User.create stores for the fields the controller passes
UserDoc(fullName, avatar, coverImage, email, username, password) ==
    [fullName |-> fullName, avatar |-> avatar, coverImage |-> coverImage,
     email |-> email, username |-> username, password |-> password,
     refreshToken |-> Undefined, watchHistory |-> <<>>]

Ids(us) == 1..Len(us)

\* User.findById
FindById(us, id) == IF id \in Ids(us) THEN id ELSE NoUser

\* a findOne that looks at the email alone
ExistedUserByEmail(us, email, username) ==
    IF \E i \in Ids(us) : us[i].email = email
    THEN CHOOSE i \in Ids(us) : us[i].email = email
    ELSE NoUser

\* User.findOne({$or: [{email}, {username}]}): the _id of a match, or NoUser
ExistedUser(us, email, username) ==
    IF \E i \in Ids(us) : us[i].email = email \/ us[i].username = username
    THEN CHOOSE i \in Ids(us) : us[i].email = email \/ us[i].username = username
    ELSE NoUser

\* the unique indexes on username and email: whether the store takes doc
UniqueOk(us, doc) ==
    \A i \in Ids(us) : us[i].email # doc.email /\ us[i].username # doc.username

\* the status the error adapter answers with for an error a handler throws
AsyncHandlerStatus(error, code) == IF error = "ApiError" THEN code ELSE 500

-----------------------------------------------------------------------------
(* Uploaded files: multer's req.files and req.file *)

NoField == [present |-> FALSE, list |-> <<>>]
Field(list) == [present |-> TRUE, list |-> list]
File(path) == [path |-> path]

\* req.files: undefined, or an object with an array for each field received
NoFiles == [present |-> FALSE, avatar |-> NoField, coverImage |-> NoField]

AvatarFields ==
    {NoField, Field(<<>>)} \cup {Field(<<File(p)>>) : p \in AvatarPaths}

CoverFields ==
    {NoField, Field(<<>>)} \cup {Field(<<File(p)>>) : p \in CoverPaths}

FilesShapes ==
    {NoFiles} \cup
    {[present |-> TRUE, avatar |-> a, coverImage |-> c] :
        a \in AvatarFields, c \in CoverFields}

FieldPaths(f) == {f.list[i].path : i \in 1..Len(f.list)}

\* the files multer has written to the disk when the handler starts
Staged(files) == FieldPaths(files.avatar) \cup FieldPaths(files.coverImage)

\* req.file of upload.single: undefined, or one staged file
NoFile == [present |-> FALSE, path |-> NoPath]
SingleFiles(paths) == {NoFile} \cup {[present |-> TRUE, path |-> p] : p \in paths}

\* one uploadOnCloudinary call as a handler made it
Call(path, outcome, r) ==
    [path |-> path, outcome |-> outcome, response |-> r.response,
     unlinks |-> r.unlinks, threw |-> r.threw]

NoCall == [path |-> NoPath, outcome |-> "none", response |-> Null,
           unlinks |-> 0, threw |-> FALSE]

-----------------------------------------------------------------------------
(* Requests and responses *)

\* the request slots of refreshAccessToken
Reqs == {"r1", "r2"}

IdleReq == [pc |-> "idle", inTok |-> Undefined, uid |-> NoUser,
            accessToken |-> Undefined, refreshToken |-> Undefined,
            status |-> 0, cookieAT |-> Undefined, cookieRT |-> Undefined,
            bodyAT |-> Undefined, bodyRT |-> Undefined]

\* the channel view of a response that carries none
NoView == [id |-> NoUser, username |-> "", subscriberCount |-> 0,
           subscribedToCount |-> 0, isSubscribed |-> FALSE]

NoLast == [op |-> "none", user |-> NoUser, username |-> "", email |-> "",
           files |-> NoFiles,
           status |-> 0, error |-> "none", avatarCall |-> NoCall,
           coverCall |-> NoCall, created |-> NoUser, req |-> IdleReq,
           view |-> NoView, history |-> <<>>, password |-> ""]

-----------------------------------------------------------------------------
(* registerUser *)

\* what a handler that runs as one step leaves: the response status, the
\* store, the disk, its two upload calls and the _id it created
Outcome(error, code, us, d, avatarCall, coverCall, created) ==
    [status |-> IF error = "none" THEN code ELSE AsyncHandlerStatus(error, code),
     error |-> error, users |-> us, disk |-> d,
     avatarCall |-> avatarCall, coverCall |-> coverCall, created |-> created]

\* req.files?.avatar[0]?.path: the path, NoPath for undefined; reading [0]
\* of a missing avatar entry is the TypeError
AvatarThrows(files) == files.present /\ ~files.avatar.present

AvatarLocalPath(files) ==
    IF files.present /\ Len(files.avatar.list) > 0
    THEN files.avatar.list[1].path
    ELSE NoPath

\* the cover path is taken only from a non-empty array
CoverImageLocalPath(files) ==
    IF files.present /\ files.coverImage.present /\ Len(files.coverImage.list) > 0
    THEN files.coverImage.list[1].path
    ELSE NoPath

\* a check of the avatar upload that lets a failed one through
AvatarUploadAccepted(response) == TRUE

\* if(!avatar): whether the avatar upload is taken as done
AvatarUploaded(response) == response.ok

\* coverImage?.url || ""
CoverUrl(response) == IF response.ok /\ response.url # "" THEN response.url ELSE ""

\* the handler on request (body, files), store us and disk d (the staged
\* files on it), the two remote uploads ending in avOut and cvOut
RegisterUser(body, files, avOut, cvOut, us, d) ==
    IF \E f \in {body.fullName, body.email, body.username, body.password} :
          Trim(f) = ""
    THEN Outcome("ApiError", 400, us, d, NoCall, NoCall, NoUser)
    ELSE IF ExistedUser(us, body.email, body.username) # NoUser
    THEN Outcome("ApiError", 409, us, d, NoCall, NoCall, NoUser)
    ELSE IF AvatarThrows(files)
    THEN Outcome("TypeError", 0, us, d, NoCall, NoCall, NoUser)
    ELSE IF AvatarLocalPath(files) = NoPath
    THEN Outcome("ApiError", 400, us, d, NoCall, NoCall, NoUser)
    ELSE
      LET ap == AvatarLocalPath(files)
          cp == CoverImageLocalPath(files)
          a  == UploadOnCloudinary(ap, d, avOut)
          avatarCall == Call(ap, avOut, a)
      IN  IF a.threw
          THEN Outcome("Error", 0, us, a.disk, avatarCall, NoCall, NoUser)
          ELSE
            LET c == UploadOnCloudinary(cp, a.disk, cvOut)
                coverCall == Call(cp, cvOut, c)
                doc == UserDoc(body.fullName, a.response.url,
                               CoverUrl(c.response), body.email,
                               ToLowerCase(body.username), body.password)
            IN  IF c.threw
                THEN Outcome("Error", 0, us, c.disk, avatarCall, coverCall, NoUser)
                ELSE IF ~AvatarUploaded(a.response)
                THEN Outcome("ApiError", 500, us, c.disk, avatarCall, coverCall,
                             NoUser)
                ELSE IF ~UniqueOk(us, doc)
                THEN Outcome("MongoServerError", 0, us, c.disk, avatarCall,
                             coverCall, NoUser)
                ELSE Outcome("none", 201, Append(us, doc), c.disk, avatarCall,
                             coverCall, Len(us) + 1)

Bodies ==
    [fullName : FullNames, email : Emails, username : Usernames,
     password : Passwords]

\* POST /register: upload.fields stages the files, then registerUser runs
Register(body, files, avOut, cvOut) ==
    LET o == RegisterUser(body, files, avOut, cvOut, users, disk \cup Staged(files))
    IN  /\ users' = o.users
        /\ disk' = o.disk
        /\ last' = [op |-> "register", user |-> NoUser,
                    username |-> body.username, email |-> body.email,
                    files |-> files, status |-> o.status, error |-> o.error,
                    avatarCall |-> o.avatarCall, coverCall |-> o.coverCall,
                    created |-> o.created, req |-> IdleReq,
                    view |-> NoView, history |-> <<>>, password |-> ""]
        /\ UNCHANGED <<subs, reqs, minted, spent, issued>>

-----------------------------------------------------------------------------
(* updateUserAvatar, updateUserCoverImage *)

\* User.findByIdAndUpdate(id, {$set: {avatar: url}})
SetAvatar(us, id, url) == [us EXCEPT ![id].avatar = url]

\* User.findByIdAndUpdate(id, {$set: {coverImage: url}})
SetCoverImage(us, id, url) == [us EXCEPT ![id].coverImage = url]

\* the status of the ApiError the two handlers throw on a failed upload
UploadFailedStatus == 400

\* updateUserAvatar for req.user._id = id and req.file = file
UpdateUserAvatar(id, file, out, us, d) ==
    IF ~file.present \/ file.path = NoPath
    THEN Outcome("ApiError", 400, us, d, NoCall, NoCall, NoUser)
    ELSE LET a == UploadOnCloudinary(file.path, d, out)
             call == Call(file.path, out, a)
         IN  IF a.threw
             THEN Outcome("Error", 0, us, a.disk, call, NoCall, NoUser)
             ELSE IF ~a.response.ok
             THEN Outcome("ApiError", UploadFailedStatus, us, a.disk, call,
                          NoCall, NoUser)
             ELSE Outcome("none", 200, SetAvatar(us, id, a.response.url),
                          a.disk, call, NoCall, NoUser)

\* updateUserCoverImage for req.user._id = id and req.file = file
UpdateUserCoverImage(id, file, out, us, d) ==
    IF ~file.present \/ file.path = NoPath
    THEN Outcome("ApiError", 400, us, d, NoCall, NoCall, NoUser)
    ELSE LET c == UploadOnCloudinary(file.path, d, out)
             call == Call(file.path, out, c)
         IN  IF c.threw
             THEN Outcome("Error", 0, us, c.disk, NoCall, call, NoUser)
             ELSE IF ~c.response.ok
             THEN Outcome("ApiError", UploadFailedStatus, us, c.disk, NoCall,
                          call, NoUser)
             ELSE Outcome("none", 200, SetCoverImage(us, id, c.response.url),
                          c.disk, NoCall, call, NoUser)

StagedFile(file) == IF file.present THEN {file.path} ELSE {}

\* PATCH /update-avatar: verifyJWT resolves the caller to the stored user
\* id, upload.single stages the file, then updateUserAvatar runs
UpdateAvatar(id, file, out) ==
    LET o == UpdateUserAvatar(id, file, out, users, disk \cup StagedFile(file))
    IN  /\ id \in Ids(users)
        /\ users' = o.users
        /\ disk' = o.disk
        /\ last' = [op |-> "updateAvatar", user |-> id, username |-> "",
                    email |-> "",
                    files |-> [NoFiles EXCEPT !.present = file.present],
                    status |-> o.status, error |-> o.error,
                    avatarCall |-> o.avatarCall, coverCall |-> o.coverCall,
                    created |-> NoUser, req |-> IdleReq, view |-> NoView,
                    history |-> <<>>,
                    password |-> ""]
        /\ UNCHANGED <<subs, reqs, minted, spent, issued>>

\* PATCH /update-cover: the same for the cover image
UpdateCoverImage(id, file, out) ==
    LET o == UpdateUserCoverImage(id, file, out, users,
                                  disk \cup StagedFile(file))
    IN  /\ id \in Ids(users)
        /\ users' = o.users
        /\ disk' = o.disk
        /\ last' = [op |-> "updateCoverImage", user |-> id, username |-> "",
                    email |-> "",
                    files |-> [NoFiles EXCEPT !.present = file.present],
                    status |-> o.status, error |-> o.error,
                    avatarCall |-> o.avatarCall, coverCall |-> o.coverCall,
                    created |-> NoUser, req |-> IdleReq, view |-> NoView,
                    history |-> <<>>,
                    password |-> ""]
        /\ UNCHANGED <<subs, reqs, minted, spent, issued>>

-----------------------------------------------------------------------------
(* The account handlers from the empty store *)

Init ==
    /\ users = <<>>
    /\ subs = <<>>
    /\ disk = {}
    /\ reqs = [r \in Reqs |-> IdleReq]
    /\ minted = <<>>
    /\ spent = {}
    /\ issued = <<>>
    /\ last = NoLast

AccountNext ==
    \/ \E body \in Bodies, files \in FilesShapes :
          \E avOut \in UploadOutcomes(AvatarLocalPath(files)),
             cvOut \in UploadOutcomes(CoverImageLocalPath(files)) :
             Register(body, files, avOut, cvOut)
    \/ \E id \in Ids(users), file \in SingleFiles(NewAvatarPaths) :
          \E out \in UploadOutcomes(file.path) : UpdateAvatar(id, file, out)
    \/ \E id \in Ids(users), file \in SingleFiles(NewCoverPaths) :
          \E out \in UploadOutcomes(file.path) : UpdateCoverImage(id, file, out)

AccountSpec == Init /\ [][AccountNext]_vars

-----------------------------------------------------------------------------
(* Properties of the account handlers *)

\* the step just taken ran registerUser
Registered == last'.op = "register"

\* the request of the step just taken names a stored user's username or email
Conflicting ==
    \E i \in Ids(users) :
        users[i].username = last'.username \/ users[i].email = last'.email

NoDuplicates(us) ==
    \A i, j \in Ids(us) :
        i # j => us[i].username # us[j].username /\ us[i].email # us[j].email

NoAvatarSupplied ==
    \/ ~last'.files.present
    \/ ~last'.files.avatar.present
    \/ Len(last'.files.avatar.list) = 0

\* C6: a registerUser call with valid, non-conflicting text fields and no
\* avatar file, whatever the shape of req.files, answers 400, makes no
\* upload call and creates no user.
C6_NoAvatarIsBadRequest ==
    [][(Registered /\ Trim(last'.username) # "" /\ ~Conflicting
          /\ NoAvatarSupplied)
        => /\ last'.status = 400
           /\ last'.avatarCall = NoCall
           /\ last'.coverCall = NoCall
           /\ users' = users]_vars

\* one upload call removed its file exactly once and answered as the remote
\* call ended
RemovedOnce(call) ==
    /\ call.unlinks = 1
    /\ ~call.threw
    /\ call.path \notin disk
    /\ call.outcome = "ok" => call.response = [ok |-> TRUE, url |-> Url(call.path)]
    /\ call.outcome = "fail" => call.response = Null

\* C7: every uploadOnCloudinary call made with a local path has called
\* unlinkSync exactly once, the file is gone, and it returned the remote
\* descriptor when the remote upload succeeded and null when it failed.
C7_LocalFileRemovedOnce ==
    \A call \in {last.avatarCall, last.coverCall} :
        call.path # NoPath => RemovedOnce(call)

\* one handler whose avatar upload succeeded and whose cover upload failed
C7_Witness ==
    /\ last.op = "register"
    /\ last.avatarCall.outcome = "ok"
    /\ last.avatarCall.unlinks = 1
    /\ last.coverCall.outcome = "fail"
    /\ last.coverCall.unlinks = 1

\* the store would take the record the request of the step just taken asks for
StoreAccepts ==
    \A i \in Ids(users) :
        /\ users[i].username # ToLowerCase(last'.username)
        /\ users[i].email # last'.email

\* C8: in registerUser a failed avatar upload answers 500, creates no user
\* and leaves none of the request's files on the disk; a failed cover upload
\* beside a successful avatar upload still creates the user (when the store
\* takes the record), with coverImage "" and a non-empty avatar url.
C8_AvatarFatalCoverTolerated ==
    [][Registered =>
        /\ last'.avatarCall.outcome = "fail"
             => /\ last'.status = 500
                /\ users' = users
                /\ Staged(last'.files) \cap disk' = {}
        /\ (last'.avatarCall.outcome = "ok" /\ last'.coverCall.outcome = "fail"
              /\ StoreAccepts)
             => /\ last'.status = 201
                /\ Len(users') = Len(users) + 1
                /\ users'[Len(users')].coverImage = ""
                /\ users'[Len(users')].avatar # ""
                /\ Staged(last'.files) \cap disk' = {}]_vars

\* a failed avatar upload, a cover file staged as well, answered 500
C8_Witness ==
    /\ last.op = "register"
    /\ last.avatarCall.outcome = "fail"
    /\ last.coverCall.path # NoPath
    /\ last.status = 500
    /\ Len(users) = 1

\* the other case of C8: the user created beside a failed cover upload
C8_WitnessCover ==
    /\ last.op = "register"
    /\ last.coverCall.outcome = "fail"
    /\ last.status = 201
    /\ users[last.created].coverImage = ""

\* the upload call of the update just made, and the field it is to replace
UpdateCall == IF last'.op = "updateAvatar" THEN last'.avatarCall ELSE last'.coverCall
UrlField(u) == IF last'.op = "updateAvatar" THEN u.avatar ELSE u.coverImage

\* C9: updateUserAvatar and updateUserCoverImage answer 400 without a file
\* and 500 when the upload fails, both leaving the store as it was; when the
\* upload succeeds the url field is overwritten.
C9_UpdateStatuses ==
    [][last'.op \in {"updateAvatar", "updateCoverImage"} =>
        /\ ~last'.files.present => (last'.status = 400 /\ users' = users)
        /\ UpdateCall.outcome = "fail" => (last'.status = 500 /\ users' = users)
        /\ UpdateCall.outcome = "ok"
             => /\ last'.status = 200
                /\ UrlField(users'[last'.user]) = Url(UpdateCall.path)]_vars

-----------------------------------------------------------------------------
(* Tokens: models/user.model.js and jsonwebtoken *)

\* user.generateAccessToken(), user.generateRefreshToken(): the n-th pair
\* signed, for the user id
GenerateAccessToken(id, n) == Token("access", id, n)
GenerateRefreshToken(id, n) == Token("refresh", id, n)

\* jwt.verify(token, REFRESH_TOKEN_SECRET): whether it returns a payload
JwtVerify(tok) == tok.kind = "refresh"

\* the refresh tokens signed so far
SignedRefreshTokens == {GenerateRefreshToken(minted[n], n) : n \in 1..Len(minted)}

\* what a client can put into the cookie or the body of a refresh request
Presentable == {Undefined, NotAJwt} \cup SignedRefreshTokens

\* req.cookies.refreshToken || req.body.refreshToken
IncomingRefreshToken(cookie, body) == IF cookie # Undefined THEN cookie ELSE body

\* user.refreshToken = refreshToken; user.save()
SaveRefreshToken(us, id, tok) == [us EXCEPT ![id].refreshToken = tok]

\* the object generateAccessAndRefreshTokens returns
TokenPair(at, rt) == [accessToken |-> at, refreshToken |-> rt]

\* const {accessToken, newRefreshToken} = pair: the helper's object has no
\* key newRefreshToken, so the variable is undefined
PickNewRefreshToken(pair) == Undefined

\* res.cookie(name, value): the value is sent as String(value)
CookieValue(v) == IF v = Undefined THEN NotAJwt ELSE v

\* what the last token-issuing or token-clearing response for a user handed
\* to the client
Handed(by, cookie, body) == [by |-> by, cookie |-> cookie, body |-> body]
HandedTo(id) == IF id \in DOMAIN issued THEN issued[id]
                ELSE Handed("none", Undefined, Undefined)

-----------------------------------------------------------------------------
(* refreshAccessToken: what the handler does between two awaits *)

\* lines 190-199: read the token, verify it, ask the store for the user
RefreshBegin(tok) ==
    IF tok = Undefined \/ ~JwtVerify(tok)
    THEN [IdleReq EXCEPT !.pc = "done", !.inTok = tok, !.status = 401]
    ELSE [IdleReq EXCEPT !.pc = "find", !.inTok = tok, !.uid = tok.uid]

\* a comparison that takes any verified token
StoredTokenAny(us, id, tok) == TRUE

\* user.refreshToken !== incomingRefreshToken, negated
StoredTokenIs(us, id, tok) == us[id].refreshToken = tok

\* lines 199-207: the user comes back; it must exist and hold the token
RefreshCompare(req, us) ==
    IF FindById(us, req.uid) = NoUser
    THEN [req EXCEPT !.pc = "done", !.status = 401]
    ELSE IF ~StoredTokenIs(us, req.uid, req.inTok)
    THEN [req EXCEPT !.pc = "done", !.status = 401]
    ELSE [req EXCEPT !.pc = "genFind"]

\* generateAccessAndRefreshTokens, lines 91-96: the user comes back, the
\* n-th pair is signed and put on the document
GenerateAccessAndRefreshTokens(req, n) ==
    [req EXCEPT !.pc = "genSave",
                !.accessToken = GenerateAccessToken(req.uid, n),
                !.refreshToken = GenerateRefreshToken(req.uid, n)]

\* lines 97-99 and 209-225: the document is saved, the pair is returned and
\* destructured, and the response is sent
RefreshRespond(req) ==
    LET pair == TokenPair(req.accessToken, req.refreshToken)
        accessToken == pair.accessToken
        newRefreshToken == PickNewRefreshToken(pair)
    IN  [req EXCEPT !.pc = "done", !.status = 200,
                    !.cookieAT = CookieValue(accessToken),
                    !.cookieRT = CookieValue(newRefreshToken),
                    !.bodyAT = accessToken,
                    !.bodyRT = newRefreshToken]

\* the request after the steps it can take on store us with n - 1 pairs signed
RefreshRun(tok, us, n) ==
    LET q0 == RefreshBegin(tok)
        q1 == IF q0.pc = "find" THEN RefreshCompare(q0, us) ELSE q0
        q2 == IF q1.pc = "genFind"
              THEN GenerateAccessAndRefreshTokens(q1, n)
              ELSE q1
    IN  IF q2.pc = "genSave" THEN RefreshRespond(q2) ELSE q2

\* the session bookkeeping a successful refresh leaves
Rotated(req) ==
    /\ users' = SaveRefreshToken(users, req.uid, req.refreshToken)
    /\ spent' = spent \cup {req.inTok}
    /\ issued' = (req.uid :> Handed("refresh", req.cookieRT, req.bodyRT)) @@ issued

\* POST /refresh-token as one step
RefreshAccessToken(cookie, body) ==
    LET req == RefreshRun(IncomingRefreshToken(cookie, body), users,
                          Len(minted) + 1)
    IN  /\ IF req.status = 200
           THEN /\ Len(minted) < MaxTokens
                /\ minted' = Append(minted, req.uid)
                /\ Rotated(req)
           ELSE UNCHANGED <<users, minted, spent, issued>>
        /\ last' = [NoLast EXCEPT !.op = "refresh", !.user = req.uid,
                                  !.status = req.status, !.req = req]
        /\ UNCHANGED <<subs, disk, reqs>>

-----------------------------------------------------------------------------
(* refreshAccessToken, one request per slot, a step per await *)

RefreshStart(r, cookie, body) ==
    /\ reqs[r].pc \in {"idle", "done"}
    /\ reqs' = [reqs EXCEPT ![r] = RefreshBegin(IncomingRefreshToken(cookie, body))]
    /\ UNCHANGED <<users, subs, disk, minted, spent, issued, last>>

RefreshFindUser(r) ==
    /\ reqs[r].pc = "find"
    /\ reqs' = [reqs EXCEPT ![r] = RefreshCompare(reqs[r], users)]
    /\ UNCHANGED <<users, subs, disk, minted, spent, issued, last>>

GenFindUser(r) ==
    /\ reqs[r].pc = "genFind"
    /\ Len(minted) < MaxTokens
    /\ minted' = Append(minted, reqs[r].uid)
    /\ reqs' = [reqs EXCEPT ![r] =
                  GenerateAccessAndRefreshTokens(reqs[r], Len(minted) + 1)]
    /\ UNCHANGED <<users, subs, disk, spent, issued, last>>

GenSave(r) ==
    /\ reqs[r].pc = "genSave"
    /\ reqs' = [reqs EXCEPT ![r] = RefreshRespond(reqs[r])]
    /\ Rotated(reqs'[r])
    /\ UNCHANGED <<subs, disk, minted, last>>

-----------------------------------------------------------------------------
(* loginUser, logoutUser *)

\* a findOne that looks at the username alone
FindOneByUsername(us, username, email) ==
    LET hits == {i \in Ids(us) : username # "" /\ us[i].username = username}
    IN  IF hits = {} THEN NoUser
        ELSE CHOOSE i \in hits : \A j \in hits : i <= j

\* User.findOne({$or: [{username}, {email}]}): the first match, or NoUser;
\* an identifier the body lacks ("") matches nothing
FindOneByUsernameOrEmail(us, username, email) ==
    LET hits == {i \in Ids(us) :
                    \/ (username # "" /\ us[i].username = username)
                    \/ (email # "" /\ us[i].email = email)}
    IN  IF hits = {} THEN NoUser
        ELSE CHOOSE i \in hits : \A j \in hits : i <= j

\* user.isPasswordCorrect(password)
IsPasswordCorrect(us, id, password) == us[id].password = password

AuthLast(op, id, username, email, status) ==
    [NoLast EXCEPT !.op = op, !.user = id, !.username = username,
                   !.email = email, !.status = status,
                   !.error = IF status >= 400 THEN "ApiError" ELSE "none"]

\* POST /login; the token pair is generated and saved in the same step
LoginUser(username, email, password) ==
    LET id == FindOneByUsernameOrEmail(users, username, email)
        n == Len(minted) + 1
        accessToken == GenerateAccessToken(id, n)
        refreshToken == GenerateRefreshToken(id, n)
        answer(status) ==
            [AuthLast("login", id, username, email, status) EXCEPT
                !.password = password,
                !.req = [IdleReq EXCEPT !.pc = "done", !.uid = id,
                                        !.status = status]]
        fail(status) ==
            /\ last' = answer(status)
            /\ UNCHANGED <<users, minted, issued>>
    IN  /\ IF username = "" /\ email = "" THEN fail(400)
           ELSE IF id = NoUser THEN fail(404)
           ELSE IF ~IsPasswordCorrect(users, id, password) THEN fail(401)
           ELSE /\ n <= MaxTokens
                /\ minted' = Append(minted, id)
                /\ users' = SaveRefreshToken(users, id, refreshToken)
                /\ issued' = (id :> Handed("login", CookieValue(refreshToken),
                                           refreshToken)) @@ issued
                /\ last' = [answer(200) EXCEPT
                              !.req.accessToken = accessToken,
                              !.req.refreshToken = refreshToken,
                              !.req.cookieAT = CookieValue(accessToken),
                              !.req.cookieRT = CookieValue(refreshToken),
                              !.req.bodyAT = accessToken,
                              !.req.bodyRT = refreshToken]
        /\ UNCHANGED <<subs, disk, reqs, spent>>

\* User.findByIdAndUpdate(id, {$set: {refreshToken: undefined}}): the stores
\* it can leave.  Mongoose 5 writes the undefined value as null; Mongoose 6
\* and later drop an undefined key from the update, which then sets nothing.
UnsetRefreshToken(us, id) == {SaveRefreshToken(us, id, Undefined), us}

\* POST /logout: verifyJWT resolves the access token of a user who has
\* logged in to req.user._id = id
LogoutUser(id) ==
    /\ id \in Ids(users)
    /\ \E n \in 1..Len(minted) : minted[n] = id
    /\ users' \in UnsetRefreshToken(users, id)
    /\ issued' = (id :> Handed("logout", Undefined, Undefined)) @@ issued
    /\ last' = AuthLast("logout", id, "", "", 200)
    /\ UNCHANGED <<subs, disk, reqs, minted, spent>>

-----------------------------------------------------------------------------
(* The session handlers over a store of two registered users *)

FirstBody == [fullName |-> "Al", email |-> "a@x.io", username |-> "alice",
              password |-> "pw"]
SecondBody == [fullName |-> "Al", email |-> "b@x.io", username |-> "bob",
               password |-> "pw"]
AvatarOnly == [present |-> TRUE, avatar |-> Field(<<File("tmp/av1.png")>>),
               coverImage |-> NoField]

\* the store after two registrations that succeeded
Registered2 ==
    LET first == RegisterUser(FirstBody, AvatarOnly, "ok", "none", <<>>,
                              Staged(AvatarOnly))
    IN  RegisterUser(SecondBody, AvatarOnly, "ok", "none", first.users,
                     Staged(AvatarOnly)).users

AuthInit ==
    /\ users = Registered2
    /\ subs = <<>>
    /\ disk = {}
    /\ reqs = [r \in Reqs |-> IdleReq]
    /\ minted = <<>>
    /\ spent = {}
    /\ issued = <<>>
    /\ last = NoLast

LoginNames == {"", "alice", "bob"}
LoginEmails == {"", "a@x.io"}
LoginPasswords == {"pw", "bad"}

AuthNext ==
    \/ \E username \in LoginNames, email \in LoginEmails,
          password \in LoginPasswords :
          LoginUser(username, email, password)
    \/ \E id \in Ids(users) : LogoutUser(id)
    \/ \E cookie \in Presentable, body \in Presentable :
          RefreshAccessToken(cookie, body)

\* the handlers one request at a time
AuthSpec == AuthInit /\ [][AuthNext]_vars

RaceNext ==
    \/ \E username \in LoginNames, email \in LoginEmails,
          password \in LoginPasswords :
          LoginUser(username, email, password)
    \/ \E id \in Ids(users) : LogoutUser(id)
    \/ \E r \in Reqs, cookie \in Presentable, body \in Presentable :
          RefreshStart(r, cookie, body)
    \/ \E r \in Reqs : RefreshFindUser(r)
    \/ \E r \in Reqs : GenFindUser(r)
    \/ \E r \in Reqs : GenSave(r)

\* refresh requests interleaved at their awaits
RaceSpec == AuthInit /\ [][RaceNext]_vars

-----------------------------------------------------------------------------
(* Properties of the session handlers *)

\* the token of the refresh request just answered was handed out by the
\* latest successful refresh of some user
NewlyIssued(tok) ==
    \E id \in DOMAIN issued :
        /\ issued[id].by = "refresh"
        /\ tok \in {issued[id].cookie, issued[id].body}

\* C1: a refresh presenting a token that a successful refresh has already
\* consumed answers 401, and a refresh presenting the refresh token the
\* latest successful refresh handed out answers 200.
C1_RefreshTokenRotation ==
    [][last'.op = "refresh" =>
        /\ last'.req.inTok \in spent => last'.status = 401
        /\ NewlyIssued(last'.req.inTok) => last'.status = 200]_vars

\* C2: of two refresh requests that present the same refresh token, at most
\* one is answered 200.
C2_RefreshRaceOneWinner ==
    \A r1, r2 \in Reqs :
        (/\ r1 # r2
         /\ reqs[r1].pc = "done"
         /\ reqs[r2].pc = "done"
         /\ reqs[r1].inTok = reqs[r2].inTok)
        => ~(reqs[r1].status = 200 /\ reqs[r2].status = 200)

\* C3: a refresh answered 200 hands back, in the cookie and in the body,
\* the refresh token it stored on the user and the access token it signed.
C3_RefreshReturnsStoredToken ==
    (last.op = "refresh" /\ last.status = 200) =>
        /\ users[last.user].refreshToken = last.req.refreshToken
        /\ last.req.refreshToken = GenerateRefreshToken(last.user, Len(minted))
        /\ last.req.bodyRT = last.req.refreshToken
        /\ last.req.cookieRT = last.req.refreshToken
        /\ last.req.bodyAT = GenerateAccessToken(last.user, Len(minted))
        /\ last.req.cookieAT = last.req.bodyAT

\* C4: logoutUser leaves the user without a stored refresh token, and a
\* refresh presenting a token of a user whose last session response was a
\* logout answers 401.
C4_LogoutRevokes ==
    [][/\ last'.op = "logout" => users'[last'.user].refreshToken = Undefined
       /\ (/\ last'.op = "refresh"
           /\ JwtVerify(last'.req.inTok)
           /\ HandedTo(last'.req.inTok.uid).by = "logout")
            => last'.status = 401]_vars

-----------------------------------------------------------------------------
(* refreshAccessToken on every kind of token a request can carry *)

\* a refresh token once its exp has passed: jwt.verify throws
\* TokenExpiredError
Expired(tok) == [tok EXCEPT !.kind = "expired"]

\* the _id of a user the store no longer holds
AbsentUser == 3

\* the tokens a refresh request can carry: none, a string that is no JWT,
\* a signed refresh token (the stored one or an older one), an expired one,
\* an access token (signed with the other secret) and a refresh token
\* signed for a user that is gone
RefreshOffers ==
    Presentable
      \cup {Expired(tok) : tok \in SignedRefreshTokens}
      \cup {GenerateAccessToken(minted[n], n) : n \in 1..Len(minted)}
      \cup {GenerateRefreshToken(AbsentUser, 1)}

RefreshNext ==
    \/ \E username \in LoginNames, email \in LoginEmails,
          password \in LoginPasswords :
          LoginUser(username, email, password)
    \/ \E id \in Ids(users) : LogoutUser(id)
    \/ \E cookie \in RefreshOffers, body \in {Undefined} :
          RefreshAccessToken(cookie, body)
    \/ \E cookie \in {Undefined}, body \in RefreshOffers :
          RefreshAccessToken(cookie, body)

RefreshSpec == AuthInit /\ [][RefreshNext]_vars

\* the token is missing, malformed or expired, names no user, or is not
\* the one the user's record holds
Unacceptable(tok, us) ==
    \/ tok = Undefined
    \/ tok.kind # "refresh"
    \/ tok.uid \notin Ids(us)
    \/ us[tok.uid].refreshToken # tok

\* C12: a refreshAccessToken call whose token is missing, malformed,
\* expired, of no user or different from the stored one answers 401,
\* leaves every stored refresh token as it was, signs no token and sets no
\* cookie.
C12_RefreshFailuresAre401 ==
    [][(last'.op = "refresh" /\ Unacceptable(last'.req.inTok, users))
        => /\ last'.status = 401
           /\ users' = users
           /\ minted' = minted
           /\ issued' = issued
           /\ last'.req.cookieAT = Undefined
           /\ last'.req.cookieRT = Undefined
           /\ last'.req.bodyAT = Undefined
           /\ last'.req.bodyRT = Undefined]_vars

\* a refresh with a signed token that is no longer the stored one, refused
C12_Witness ==
    /\ last.op = "refresh"
    /\ last.status = 401
    /\ last.req.inTok \in SignedRefreshTokens
    /\ users[last.req.inTok.uid].refreshToken \in SignedRefreshTokens
    /\ users[last.req.inTok.uid].refreshToken # last.req.inTok

\* a refresh with the stored token after its expiry, refused
C12_WitnessExpired ==
    /\ last.op = "refresh"
    /\ last.status = 401
    /\ last.req.inTok.kind = "expired"
    /\ users[last.req.inTok.uid].refreshToken =
          [last.req.inTok EXCEPT !.kind = "refresh"]

\* a refresh with a token of a user that is gone, refused
C12_WitnessNoUser ==
    /\ last.op = "refresh"
    /\ last.status = 401
    /\ last.req.inTok = GenerateRefreshToken(AbsentUser, 1)

-----------------------------------------------------------------------------
(* loginUser over users whose passwords differ *)

\* POST /change-password: verifyJWT resolves the access token of a user who
\* has logged in to req.user._id = id; the old password must be the stored
\* one, the new one replaces it
ChangeCurrentPassword(id, oldPassword, newPassword) ==
    /\ id \in Ids(users)
    /\ \E n \in 1..Len(minted) : minted[n] = id
    /\ IF ~IsPasswordCorrect(users, id, oldPassword)
       THEN /\ users' = users
            /\ last' = [AuthLast("changePassword", id, "", "", 401) EXCEPT
                          !.password = oldPassword]
       ELSE /\ users' = [users EXCEPT ![id].password = newPassword]
            /\ last' = [AuthLast("changePassword", id, "", "", 200) EXCEPT
                          !.password = oldPassword]
    /\ UNCHANGED <<subs, disk, reqs, minted, spent, issued>>

NewPasswords == {"pw2"}
AnyPasswords == LoginPasswords \cup NewPasswords
AnyEmails == {"", "a@x.io", "b@x.io"}

LoginNext ==
    \/ \E username \in LoginNames, email \in AnyEmails,
          password \in AnyPasswords :
          LoginUser(username, email, password)
    \/ \E id \in Ids(users), oldPassword \in AnyPasswords,
          newPassword \in NewPasswords :
          ChangeCurrentPassword(id, oldPassword, newPassword)

LoginSpec == AuthInit /\ [][LoginNext]_vars

\* the users a login request names by its username or by its email
Named(us, username, email) ==
    {i \in Ids(us) : \/ (username # "" /\ us[i].username = username)
                     \/ (email # "" /\ us[i].email = email)}

\* every stored refresh token but that of user id is what it was
OthersKeep(id) ==
    \A j \in Ids(users) \ {id} : users'[j].refreshToken = users[j].refreshToken

\* C13: loginUser answers 400 when neither username nor email is given, 404
\* when no user has the username or the email, 401 when the password is
\* not that of the user found, and leaves every stored refresh token as it
\* was in these cases; it signs a pair and overwrites the stored refresh
\* token only of a user that has the username or the email and whose
\* password is the one supplied.
C13_LoginIssuesOnlyOnMatch ==
    [][last'.op = "login" =>
        LET named == Named(users, last'.username, last'.email)
            id == last'.user
        IN  /\ (last'.username = "" /\ last'.email = "") <=> last'.status = 400
            /\ (named = {} /\ last'.status # 400) <=> last'.status = 404
            /\ last'.status \in {200, 400, 401, 404}
            /\ last'.status \in {200, 401} => id \in named
            /\ last'.status = 401 => users[id].password # last'.password
            /\ last'.status = 200
                 => /\ users[id].password = last'.password
                    /\ minted' = Append(minted, id)
                    /\ users'[id].refreshToken =
                          GenerateRefreshToken(id, Len(minted'))
                    /\ last'.req.bodyRT = users'[id].refreshToken
                    /\ OthersKeep(id)
            /\ last'.status # 200
                 => /\ OthersKeep(NoUser)
                    /\ minted' = minted
                    /\ last'.req.bodyRT = Undefined
                    /\ last'.req.cookieRT = Undefined]_vars

\* a login that overwrote the token an earlier login of the user stored,
\* another user's password being a different one
C13_Witness ==
    /\ last.op = "login"
    /\ last.status = 200
    /\ \E n \in 1..(Len(minted) - 1) : minted[n] = last.user
    /\ \E j \in Ids(users) : users[j].password # last.password

\* a login refused for the password of another user, a token being stored
C13_WitnessWrongPassword ==
    /\ last.op = "login"
    /\ last.status = 401
    /\ users[last.user].refreshToken \in SignedRefreshTokens
    /\ \E j \in Ids(users) : users[j].password = last.password

-----------------------------------------------------------------------------
(* changeAccountDetails *)

\* a unique index that takes every email
UniqueEmailAny(us, id, email) == TRUE

\* the unique index on email: whether the store takes email on the record
\* of user id
UniqueEmailOk(us, id, email) ==
    \A i \in Ids(us) \ {id} : us[i].email # email

\* User.findByIdAndUpdate(id, {$set: {fullName, email}})
SetAccountDetails(us, id, fullName, email) ==
    [us EXCEPT ![id].fullName = fullName, ![id].email = email]

\* PATCH /update-account by the user verifyJWT resolved ("" is a field the
\* body lacks); the handler looks for no other holder of the email, an
\* update the index refuses throws out of findByIdAndUpdate
ChangeAccountDetails(id, fullName, email) ==
    LET answer(status, error) ==
            [AuthLast("changeAccountDetails", id, "", email, status) EXCEPT
                !.error = error]
    IN  /\ id \in Ids(users)
        /\ \E n \in 1..Len(minted) : minted[n] = id
        /\ IF fullName = "" \/ email = ""
           THEN /\ users' = users
                /\ last' = answer(400, "ApiError")
           ELSE IF ~UniqueEmailOk(users, id, email)
           THEN /\ users' = users
                /\ last' = answer(AsyncHandlerStatus("MongoServerError", 0),
                                  "MongoServerError")
           ELSE /\ users' = SetAccountDetails(users, id, fullName, email)
                /\ last' = answer(200, "none")
        /\ UNCHANGED <<subs, disk, reqs, minted, spent, issued>>

NewFullNames == {"", "Al"}
NewEmails == {"", "a@x.io", "b@x.io", "c@x.io"}

\* registrations with an avatar and no cover image, logins and profile
\* edits, from the empty store
ProfileNext ==
    \/ \E body \in Bodies :
          \E avOut \in UploadOutcomes(AvatarLocalPath(AvatarOnly)) :
             Register(body, AvatarOnly, avOut, "none")
    \/ \E username \in LoginNames, email \in LoginEmails,
          password \in LoginPasswords :
          LoginUser(username, email, password)
    \/ \E id \in Ids(users), fullName \in NewFullNames, email \in NewEmails :
          ChangeAccountDetails(id, fullName, email)

ProfileSpec == Init /\ [][ProfileNext]_vars

C14_WitnessMoved ==
    /\ Len(users) = 2
    /\ users[1].email = "c@x.io"
    /\ users[2].email = "a@x.io"

-----------------------------------------------------------------------------
(* getUserChannelProfile and the subscriptions it reads *)

Edge(subscriber, channel) == [subscriber |-> subscriber, channel |-> channel]

\* a subscription made elsewhere: the controller only reads the collection
Subscribe(subscriber, channel) ==
    /\ Len(subs) < MaxSubs
    /\ subscriber \in Ids(users)
    /\ channel \in Ids(users)
    /\ subs' = Append(subs, Edge(subscriber, channel))
    /\ UNCHANGED <<users, disk, reqs, minted, spent, issued, last>>

\* router.route("/c/:username").get(getUserChannelProfile): the route runs
\* no verifyJWT, so req.user is undefined whoever sends the request
ChannelRouteUser(viewer) == NoUser

\* $match: {username: username?.toLowerCase()}
MatchUsername(us, username) ==
    IF \E i \in Ids(us) : us[i].username = ToLowerCase(username)
    THEN CHOOSE i \in Ids(us) : us[i].username = ToLowerCase(username)
    ELSE NoUser

\* $lookup on subscriptions by foreignField: the edges whose field is id
Lookup(sb, field, id) ==
    SelectSeq(sb, LAMBDA e : IF field = "channel" THEN e.channel = id
                                                  ELSE e.subscriber = id)

\* the pipeline's $addFields and $project for the matched user
ChannelView(us, sb, id, reqUser) ==
    LET subscribers == Lookup(sb, "channel", id)
        subscribedTo == Lookup(sb, "subscriber", id)
    IN  [id |-> id,
         username |-> us[id].username,
         subscriberCount |-> Len(subscribers),
         subscribedToCount |-> Len(subscribedTo),
         isSubscribed |-> \E i \in 1..Len(subscribers) :
                             subscribers[i].subscriber = reqUser]

\* GET /c/:username sent by viewer (NoUser: nobody logged in)
GetUserChannelProfile(viewer, username) ==
    LET id == MatchUsername(users, username)
        reqUser == ChannelRouteUser(viewer)
    IN  /\ last' = IF username = ""
                   THEN [NoLast EXCEPT !.op = "channel", !.user = viewer,
                                       !.username = username, !.status = 400,
                                       !.error = "ApiError"]
                   ELSE IF id = NoUser
                   THEN [NoLast EXCEPT !.op = "channel", !.user = viewer,
                                       !.username = username, !.status = 404,
                                       !.error = "ApiError"]
                   ELSE [NoLast EXCEPT !.op = "channel", !.user = viewer,
                                       !.username = username, !.status = 200,
                                       !.view = ChannelView(users, subs, id,
                                                            reqUser)]
        /\ UNCHANGED <<users, subs, disk, reqs, minted, spent, issued>>

ChannelNames == {"alice", "Alice", "bob", "carol", ""}

ChannelNext ==
    \/ \E subscriber \in Ids(users), channel \in Ids(users) :
          Subscribe(subscriber, channel)
    \/ \E viewer \in Ids(users) \cup {NoUser}, username \in ChannelNames :
          GetUserChannelProfile(viewer, username)

\* channel profiles read over a store of two registered users
ChannelSpec == AuthInit /\ [][ChannelNext]_vars

\* the edges of sb from subscriber to channel
Edges(sb, subscriber, channel) ==
    {i \in 1..Len(sb) : sb[i] = Edge(subscriber, channel)}

\* C10: for an existing channel GET /c/:username answers 200 with
\* subscriberCount the number of edges whose channel is that user,
\* subscribedToCount the number of edges whose subscriber is that user, and
\* isSubscribed true exactly when the viewer is the subscriber of one of the
\* channel's edges.
C10_ChannelProfileCounts ==
    [][(last'.op = "channel" /\ subs' = subs
          /\ MatchUsername(users, last'.username) # NoUser
          /\ last'.username # "")
        => LET id == MatchUsername(users, last'.username)
           IN  /\ last'.status = 200
               /\ last'.view.subscriberCount =
                     Cardinality({i \in 1..Len(subs) : subs[i].channel = id})
               /\ last'.view.subscribedToCount =
                     Cardinality({i \in 1..Len(subs) : subs[i].subscriber = id})
               /\ last'.view.isSubscribed <=>
                     (last'.user # NoUser /\ Edges(subs, last'.user, id) # {})]_vars

-----------------------------------------------------------------------------
(* getWatchHistory and the videos it joins *)

\* the videos collection in its stored order, a video's _id its index; the
\* owner of the third is no user of the store
Videos == <<[owner |-> 1], [owner |-> 2], [owner |-> 3]>>
VideoIds == 1..Len(Videos)

\* a video watched elsewhere: the controller only reads watchHistory
Watch(id, video) ==
    /\ id \in Ids(users)
    /\ Len(users[id].watchHistory) < MaxHistory
    /\ users' = [users EXCEPT ![id].watchHistory = Append(@, video)]
    /\ UNCHANGED <<subs, disk, reqs, minted, spent, issued, last>>

\* a video without the owner field
NoOwner == [present |-> FALSE, fullName |-> "", username |-> "", avatar |-> ""]

\* the inner $lookup from users by _id with its $project: the array of
\* owners, each {fullName, username, avatar}
OwnerLookup(us, owner) ==
    IF owner \in Ids(us)
    THEN <<[present |-> TRUE, fullName |-> us[owner].fullName,
            username |-> us[owner].username, avatar |-> us[owner].avatar]>>
    ELSE <<>>

\* $addFields {owner: {$first: "$owner"}}: the first element, and no field
\* for an empty array
FirstOwner(owners) == IF Len(owners) = 0 THEN NoOwner ELSE owners[1]

VideoView(us, video) ==
    [video |-> video, owner |-> FirstOwner(OwnerLookup(us, Videos[video].owner))]

\* $lookup from videos with localField watchHistory (an array) and
\* foreignField _id: the videos whose _id is an element of the array, each
\* once, as the collection yields them
VideoLookup(us, watchHistory) ==
    LET referenced == {watchHistory[i] : i \in 1..Len(watchHistory)}
    IN  SelectSeq([v \in VideoIds |-> VideoView(us, v)],
                  LAMBDA view : view.video \in referenced)

\* the documents the pipeline yields once it is executed: the $match'ed
\* user with watchHistory replaced by the joined videos
WatchHistoryPipeline(us, id) ==
    <<[watchHistory |-> VideoLookup(us, us[id].watchHistory)]>>

\* const user = User.aggregate([...]): there is no await, so user is the
\* Aggregate object and not the array of documents it would resolve to
AggregateObject(docs) == [resolved |-> FALSE, docs |-> docs]

\* user[0]: an element of an array, undefined on the Aggregate object
ElementZero(user) ==
    IF user.resolved /\ Len(user.docs) > 0
    THEN [defined |-> TRUE, doc |-> user.docs[1]]
    ELSE [defined |-> FALSE, doc |-> [watchHistory |-> <<>>]]

\* GET /history by the user verifyJWT resolved; reading .watchHistory of
\* undefined is a TypeError
GetWatchHistory(id) ==
    LET user == AggregateObject(WatchHistoryPipeline(users, id))
        first == ElementZero(user)
    IN  /\ id \in Ids(users)
        /\ last' = IF first.defined
                   THEN [NoLast EXCEPT !.op = "history", !.user = id,
                                       !.status = 200,
                                       !.history = first.doc.watchHistory]
                   ELSE [NoLast EXCEPT !.op = "history", !.user = id,
                                       !.status = AsyncHandlerStatus("TypeError", 0),
                                       !.error = "TypeError"]
        /\ UNCHANGED <<users, subs, disk, reqs, minted, spent, issued>>

HistoryNext ==
    \/ \E id \in Ids(users), video \in VideoIds : Watch(id, video)
    \/ \E id \in Ids(users) : GetWatchHistory(id)

\* watch histories read over a store of two registered users
HistorySpec == AuthInit /\ [][HistoryNext]_vars

\* the owner a video view is to carry: the projected user, or none
OwnerOf(us, video) ==
    IF Videos[video].owner \in Ids(us)
    THEN [present |-> TRUE, fullName |-> us[Videos[video].owner].fullName,
          username |-> us[Videos[video].owner].username,
          avatar |-> us[Videos[video].owner].avatar]
    ELSE NoOwner

\* C11: GET /history by an authenticated user answers 200 with one entry
\* per video reference of the user's watchHistory, in the stored order,
\* each with its owner as one object {fullName, username, avatar}, and
\* without an owner when the owner is no user of the store.
C11_WatchHistoryOrdered ==
    [][last'.op = "history" =>
        LET h == users[last'.user].watchHistory
        IN  /\ last'.status = 200
            /\ last'.history =
                 [i \in 1..Len(h) |->
                    [video |-> h[i], owner |-> OwnerOf(users, h[i])]]]_vars

-----------------------------------------------------------------------------
(* The whole controller from the empty store, a handler a step *)

Next ==
    \/ AccountNext
    \/ AuthNext
    \/ RefreshNext
    \/ LoginNext
    \/ ProfileNext
    \/ ChannelNext
    \/ HistoryNext

Spec == Init /\ [][Next]_vars

=============================================================================
